---- MODULE Spec2Model ----
(***************************************************************************)
(* unicode-codepoint: the three parsers of parser.go (UTF-8, UTF-16,       *)
(* UTF-32) reading a bufio.Reader, and the loop of main that drives them.  *)
(*                                                                         *)
(* The reader is a finite byte sequence `input` with a read position       *)
(* `pos`.  A parse() call is one atomic step (the program is sequential).  *)
(***************************************************************************)
EXTENDS Integers, Sequences, FiniteSets, TLC

VARIABLES
    bit,        \* NewParser's bit argument: 8, 16 or 32
    ByteOrder,  \* NewParser's byteOrder: "BigEndian", "LittleEndian", "nil"
    input,      \* everything the reader will ever deliver
    pos,        \* number of bytes consumed from the reader
    token,      \* the *Token returned by the last parse() (nil before)
    err,        \* the error returned by the last parse() ("nil" before)
    from,       \* reader position at the start of the last parse()
    tokens,     \* the tokens main has printed so far, in order
    steps,      \* number of parse() calls made
    chars       \* the scalars whose encoding is the input (SpecEnc), else <<>>

vars == <<bit, ByteOrder, input, pos, token, err, from, tokens, steps, chars>>

----------------------------------------------------------------------------
(* Bounds of the model.                                                    *)

MaxLen8 == 4
MaxLen16 == 4
MaxLen32 == 4
MaxUnits == 3
MaxChars == 2

----------------------------------------------------------------------------
(* parser.go:14-19                                                         *)

TypeOk == 0
TypeInvalidByteSequence == 1
TypeRedundantEncoding == 2
TypeIncompleteSurrogatePair == 3

(* The values an error return takes: nil, io.EOF, io.ErrUnexpectedEOF.     *)
ErrNil == "nil"
EOF == "EOF"
ErrUnexpectedEOF == "ErrUnexpectedEOF"

(* A nil *Token.                                                           *)
nil == [isNil |-> TRUE]

NewToken(Rune, Type, Bytes) == [Rune |-> Rune, Type |-> Type, Bytes |-> Bytes]

----------------------------------------------------------------------------
(* Integer arithmetic of Go on non-negative operands.                      *)

RECURSIVE BitAnd(_, _)
BitAnd(a, b) ==
    IF a = 0 \/ b = 0 THEN 0
    ELSE 2 * BitAnd(a \div 2, b \div 2) + (IF a % 2 = 1 /\ b % 2 = 1 THEN 1 ELSE 0)

RECURSIVE BitOr(_, _)
BitOr(a, b) ==
    IF a = 0 THEN b
    ELSE IF b = 0 THEN a
    ELSE 2 * BitOr(a \div 2, b \div 2) + (IF a % 2 = 1 \/ b % 2 = 1 THEN 1 ELSE 0)

Shl(a, n) == a * 2^n

(* A uint32 is kept as its two 16-bit halves [hi, lo]: the integers of TLC  *)
(* are 32-bit signed and cannot hold 0x80000000..0xffffffff.               *)
(* rune(x) for a uint32 x: rune is int32, so the conversion wraps and a     *)
(* value with the top bit set becomes x - 2^32.                            *)
RuneOfUint32(x) ==
    IF x.hi >= 2^15 THEN (x.hi - 2^16) * 2^16 + x.lo ELSE x.hi * 2^16 + x.lo

----------------------------------------------------------------------------
(* bufio.Reader over the input, as used through baseParser.                *)

Min(a, b) == IF a < b THEN a ELSE b

(* a variant that yields a zero byte, and no error, once the input is used up *)
readByte_noEOF(in, p) ==
    IF p < Len(in) THEN [b |-> in[p + 1], err |-> ErrNil, pos |-> p + 1]
    ELSE [b |-> 0, err |-> ErrNil, pos |-> p]

(* readByte: <<byte, err, new position>> *)
readByte(in, p) ==
    IF p < Len(in) THEN [b |-> in[p + 1], err |-> ErrNil, pos |-> p + 1]
    ELSE [b |-> 0, err |-> EOF, pos |-> p]

(* a variant that reports EOF only when nothing at all is left *)
peek_any(in, p, n) ==
    [bs  |-> SubSeq(in, p + 1, Min(p + n, Len(in))),
     err |-> IF Len(in) - p >= 1 THEN ErrNil ELSE EOF]

(* peek(n): the next n bytes, or the fewer that are left together with EOF *)
peek(in, p, n) ==
    [bs  |-> SubSeq(in, p + 1, Min(p + n, Len(in))),
     err |-> IF Len(in) - p >= n THEN ErrNil ELSE EOF]

(* a variant that drops the error of a failed peek *)
peekByte_quiet(in, p) ==
    LET r == peek(in, p, 1)
    IN  IF r.err # ErrNil \/ Len(r.bs) # 1 THEN [b |-> 0, err |-> ErrNil]
        ELSE [b |-> r.bs[1], err |-> ErrNil]

(* peekByte: the next byte, or 0 and the error of the peek *)
peekByte(in, p) ==
    LET r == peek(in, p, 1)
    IN  IF r.err # ErrNil \/ Len(r.bs) # 1 THEN [b |-> 0, err |-> r.err]
        ELSE [b |-> r.bs[1], err |-> ErrNil]

(* variants of io.ReadFull that report every short read with one error *)
readFull_eof(in, p, n) ==
    LET got == Min(Len(in) - p, n)
    IN  [buf |-> SubSeq(in, p + 1, p + got) \o [i \in 1..(n - got) |-> 0],
         n   |-> got,
         err |-> IF got = n THEN ErrNil ELSE EOF,
         pos |-> p + got]

readFull_unexpected(in, p, n) ==
    LET got == Min(Len(in) - p, n)
    IN  [buf |-> SubSeq(in, p + 1, p + got) \o [i \in 1..(n - got) |-> 0],
         n   |-> got,
         err |-> IF got = n THEN ErrNil ELSE ErrUnexpectedEOF,
         pos |-> p + got]

(* io.ReadFull into a buffer of n zero bytes *)
readFull(in, p, n) ==
    LET avail == Len(in) - p
        got   == Min(avail, n)
    IN  [buf |-> SubSeq(in, p + 1, p + got) \o [i \in 1..(n - got) |-> 0],
         n   |-> got,
         err |-> IF got = n THEN ErrNil
                 ELSE IF got = 0 THEN EOF ELSE ErrUnexpectedEOF,
         pos |-> p + got]

----------------------------------------------------------------------------
(* What one parse() call yields: the token, the error, the reader position *)
(* it leaves.                                                              *)

Ret(tok, e, p) == [token |-> tok, err |-> e, pos |-> p]

(* a variant that compares with <= *)
(* a variant that rejects what is not a Unicode scalar value *)
Classify_strict(r, least) ==
    IF r < least THEN TypeRedundantEncoding
    ELSE IF (\Hd800 <= r /\ r <= \Hdfff) \/ r > \H10ffff
    THEN TypeInvalidByteSequence
    ELSE TypeOk

Classify_le(r, least) == IF r <= least THEN TypeRedundantEncoding ELSE TypeOk

(* The value r of a complete sequence becomes TypeRedundantEncoding when it *)
(* is below the smallest value that needs that many bytes.                 *)
Classify(r, least) == IF r < least THEN TypeRedundantEncoding ELSE TypeOk

(* a variant of the branch b1 <= 0xdf that reads the second byte instead of *)
(* peeking it                                                              *)
utf8Parse2_reads(in, p, b1) ==
    LET k2 == readByte(in, p)
        b2 == k2.b
        r  == BitOr(Shl(BitAnd(b1, \H1f), 6), BitAnd(b2, \H3f))
    IN  IF k2.err # ErrNil
        THEN Ret(NewToken(0, TypeInvalidByteSequence, <<b1>>), k2.err, p)
        ELSE IF BitAnd(b2, \Hc0) # \H80
        THEN Ret(NewToken(0, TypeInvalidByteSequence, <<b1>>), k2.err, k2.pos)
        ELSE Ret(NewToken(r, Classify(r, \H80), <<b1, b2>>), ErrNil, k2.pos)

(* utf8Parser.parse, the branch b1 <= 0xdf: one continuation byte *)
utf8Parse2(in, p, b1) ==
    LET k2 == peekByte(in, p)
        b2 == k2.b
        r  == BitOr(Shl(BitAnd(b1, \H1f), 6), BitAnd(b2, \H3f))
    IN  IF k2.err # ErrNil
        THEN Ret(NewToken(0, TypeInvalidByteSequence, <<b1>>), k2.err, p)
        ELSE IF BitAnd(b2, \Hc0) # \H80
        THEN Ret(NewToken(0, TypeInvalidByteSequence, <<b1>>), k2.err, p)
        ELSE Ret(NewToken(r, Classify(r, \H80), <<b1, b2>>), ErrNil,
                 readByte(in, p).pos)

(* utf8Parser.parse, the branch b1 <= 0xef: two continuation bytes *)
utf8Parse3(in, p, b1) ==
    LET k2 == peekByte(in, p)
        b2 == k2.b
        p2 == readByte(in, p).pos
        k3 == peekByte(in, p2)
        b3 == k3.b
        r  == BitOr(BitOr(Shl(BitAnd(b1, \H0f), 12), Shl(BitAnd(b2, \H3f), 6)),
                    BitAnd(b3, \H3f))
    IN  IF k2.err # ErrNil
        THEN Ret(NewToken(0, TypeInvalidByteSequence, <<b1>>), k2.err, p)
        ELSE IF BitAnd(b2, \Hc0) # \H80
        THEN Ret(NewToken(0, TypeInvalidByteSequence, <<b1>>), k2.err, p)
        ELSE IF k3.err # ErrNil
        THEN Ret(NewToken(0, TypeInvalidByteSequence, <<b1, b2>>), k3.err, p2)
        ELSE IF BitAnd(b3, \Hc0) # \H80
        THEN Ret(NewToken(0, TypeInvalidByteSequence, <<b1, b2>>), k3.err, p2)
        ELSE Ret(NewToken(r, Classify(r, \H800), <<b1, b2, b3>>), ErrNil,
                 readByte(in, p2).pos)

(* utf8Parser.parse, the branch b1 <= 0xf7: three continuation bytes *)
utf8Parse4(in, p, b1) ==
    LET k2 == peekByte(in, p)
        b2 == k2.b
        p2 == readByte(in, p).pos
        k3 == peekByte(in, p2)
        b3 == k3.b
        p3 == readByte(in, p2).pos
        k4 == peekByte(in, p3)
        b4 == k4.b
        r  == BitOr(BitOr(BitOr(Shl(BitAnd(b1, \H07), 18),
                                Shl(BitAnd(b2, \H3f), 12)),
                          Shl(BitAnd(b3, \H3f), 6)),
                    BitAnd(b4, \H3f))
    IN  IF k2.err # ErrNil
        THEN Ret(NewToken(0, TypeInvalidByteSequence, <<b1>>), k2.err, p)
        ELSE IF BitAnd(b2, \Hc0) # \H80
        THEN Ret(NewToken(0, TypeInvalidByteSequence, <<b1>>), k2.err, p)
        ELSE IF k3.err # ErrNil
        THEN Ret(NewToken(0, TypeInvalidByteSequence, <<b1, b2>>), k3.err, p2)
        ELSE IF BitAnd(b3, \Hc0) # \H80
        THEN Ret(NewToken(0, TypeInvalidByteSequence, <<b1, b2>>), k3.err, p2)
        ELSE IF k4.err # ErrNil
        THEN Ret(NewToken(0, TypeInvalidByteSequence, <<b1, b2, b3>>), k4.err, p3)
        ELSE IF BitAnd(b4, \Hc0) # \H80
        THEN Ret(NewToken(0, TypeInvalidByteSequence, <<b1, b2, b3>>), k4.err, p3)
        ELSE Ret(NewToken(r, Classify(r, \H10000), <<b1, b2, b3, b4>>), ErrNil,
                 readByte(in, p3).pos)

(* a variant that takes 0xf8 for the leader of a 4-byte sequence *)
utf8Parse_f8(in, p) ==
    LET r1 == readByte(in, p)
        b1 == r1.b
        p1 == r1.pos
    IN  IF r1.err # ErrNil THEN Ret(nil, r1.err, p1)
        ELSE IF b1 <= \H7f THEN Ret(NewToken(b1, TypeOk, <<b1>>), ErrNil, p1)
        ELSE IF b1 <= \Hbf
        THEN Ret(NewToken(0, TypeInvalidByteSequence, <<b1>>), r1.err, p1)
        ELSE IF b1 <= \Hdf THEN utf8Parse2(in, p1, b1)
        ELSE IF b1 <= \Hef THEN utf8Parse3(in, p1, b1)
        ELSE IF b1 <= \Hf8 THEN utf8Parse4(in, p1, b1)
        ELSE Ret(NewToken(0, TypeInvalidByteSequence, <<b1>>), r1.err, p1)

(* utf8Parser.parse *)
utf8Parse(in, p) ==
    LET r1 == readByte(in, p)
        b1 == r1.b
        p1 == r1.pos
    IN  IF r1.err # ErrNil THEN Ret(nil, r1.err, p1)
        ELSE IF b1 <= \H7f THEN Ret(NewToken(b1, TypeOk, <<b1>>), ErrNil, p1)
        ELSE IF b1 <= \Hbf
        THEN Ret(NewToken(0, TypeInvalidByteSequence, <<b1>>), r1.err, p1)
        ELSE IF b1 <= \Hdf THEN utf8Parse2(in, p1, b1)
        ELSE IF b1 <= \Hef THEN utf8Parse3(in, p1, b1)
        ELSE IF b1 <= \Hf7 THEN utf8Parse4(in, p1, b1)
        ELSE Ret(NewToken(0, TypeInvalidByteSequence, <<b1>>), r1.err, p1)

----------------------------------------------------------------------------
(* binary.ByteOrder: Uint16 and Uint32 of a byte slice.                    *)

(* a variant that reads every unit most significant byte first *)
Uint16_be(order, b) == BitOr(b[2], Shl(b[1], 8))

Uint16(order, b) ==
    IF order = "LittleEndian" THEN BitOr(b[1], Shl(b[2], 8))
    ELSE BitOr(b[2], Shl(b[1], 8))

Uint32(order, b) ==
    IF order = "LittleEndian"
    THEN [lo |-> BitOr(b[1], Shl(b[2], 8)), hi |-> BitOr(b[3], Shl(b[4], 8))]
    ELSE [lo |-> BitOr(b[4], Shl(b[3], 8)), hi |-> BitOr(b[2], Shl(b[1], 8))]

(* variants with a wrong end of the range *)
isHighSurrogate_strict(r) == \Hd800 < r /\ r <= \Hdbff

isLowSurrogate_wide(r) == \Hd800 <= r /\ r <= \Hdfff

isHighSurrogate(r) == \Hd800 <= r /\ r <= \Hdbff

isLowSurrogate(r) == \Hdc00 <= r /\ r <= \Hdfff

(* a variant that reads + as binding tighter than | *)
(* a variant that leaves out the offset of the supplementary planes *)
surrogateValue_noOffset(r1, r2) ==
    BitOr(Shl(BitAnd(r1, \H3ff), 10), BitAnd(r2, \H3ff))

surrogateValue_plusFirst(r1, r2) ==
    BitOr(Shl(BitAnd(r1, \H3ff), 10), BitAnd(r2, \H3ff) + \H10000)

(* c := (r1&0x3ff)<<10 | r2&0x3ff + 0x10000: in Go << and & bind tighter    *)
(* than | and +, which have one precedence and associate to the left.      *)
surrogateValue(r1, r2) ==
    BitOr(Shl(BitAnd(r1, \H3ff), 10), BitAnd(r2, \H3ff)) + \H10000

(* a variant that consumes one byte of the peeked unit *)
readTwice_once(in, p) == readByte(in, p).pos

(* p.readByte(); p.readByte(): the position after the peeked unit *)
readTwice(in, p) == readByte(in, readByte(in, p).pos).pos

(* utf16Parser.parse *)
utf16Parse(order, in, p) ==
    LET f      == readFull(in, p, 2)
        bytes  == f.buf
        r1     == Uint16(order, bytes)
        k      == peek(in, f.pos, 2)
        bytes2 == k.bs
        r2     == Uint16(order, bytes2)
        c      == surrogateValue(r1, r2)
    IN  IF f.err # ErrNil
        THEN IF f.n = 0 THEN Ret(nil, f.err, f.pos)
             ELSE Ret(NewToken(0, TypeInvalidByteSequence, SubSeq(bytes, 1, f.n)),
                      f.err, f.pos)
        ELSE IF isHighSurrogate(r1)
        THEN IF k.err # ErrNil \/ Len(bytes2) # 2
             THEN Ret(NewToken(0, TypeIncompleteSurrogatePair, bytes), k.err, f.pos)
             ELSE IF ~isLowSurrogate(r2)
             THEN Ret(NewToken(0, TypeIncompleteSurrogatePair, bytes), k.err, f.pos)
             ELSE Ret(NewToken(c, TypeOk, bytes \o bytes2), ErrNil,
                      readTwice(in, f.pos))
        ELSE IF isLowSurrogate(r1)
        THEN Ret(NewToken(0, TypeIncompleteSurrogatePair, bytes), ErrNil, f.pos)
        ELSE Ret(NewToken(r1, TypeOk, bytes), ErrNil, f.pos)

(* a variant that leaves the value read in the token it rejects *)
utf32Parse_keeps(order, in, p) ==
    LET f     == readFull(in, p, 4)
        bytes == f.buf
        r     == RuneOfUint32(Uint32(order, bytes))
    IN  IF f.err # ErrNil
        THEN IF f.n = 0 THEN Ret(nil, f.err, f.pos)
             ELSE Ret(NewToken(0, TypeInvalidByteSequence, SubSeq(bytes, 1, f.n)),
                      f.err, f.pos)
        ELSE IF r > \H10ffff
        THEN Ret(NewToken(r, TypeInvalidByteSequence, bytes), ErrNil, f.pos)
        ELSE Ret(NewToken(r, TypeOk, bytes), ErrNil, f.pos)

(* utf32Parser.parse *)
utf32Parse(order, in, p) ==
    LET f     == readFull(in, p, 4)
        bytes == f.buf
        r     == RuneOfUint32(Uint32(order, bytes))
    IN  IF f.err # ErrNil
        THEN IF f.n = 0 THEN Ret(nil, f.err, f.pos)
             ELSE Ret(NewToken(0, TypeInvalidByteSequence, SubSeq(bytes, 1, f.n)),
                      f.err, f.pos)
        ELSE IF r > \H10ffff
        THEN Ret(NewToken(0, TypeInvalidByteSequence, bytes), ErrNil, f.pos)
        ELSE Ret(NewToken(r, TypeOk, bytes), ErrNil, f.pos)

----------------------------------------------------------------------------
(* The inputs explored.  Every byte sequence is a possible input; the ones  *)
(* explored are all short sequences over bytes on both sides of each        *)
(* comparison the parsers make, sequences of whole code units over the      *)
(* boundary values, and the inputs of the repository's tests.               *)

SeqsUpTo(S, n) == UNION {[1..k -> S] : k \in 0..n}

Core8 == {\H7f, \H80, \Hbf, \Hc0, \Hdf, \He0, \Hef, \Hf0, \Hf7, \Hf8}
Core16 == {\H00, \H61, \Hd7, \Hd8, \Hdb, \Hdc, \Hdf}
Core32 == {\H00, \H10, \H11, \H7f, \H80, \Hff}

(* leaders of each length and continuation bytes around the least values *)
Lead2 == {\Hc0, \Hc1, \Hc2, \Hdf}
Lead3 == {\He0, \He1, \Hed, \Hef}
Lead4 == {\Hf0, \Hf1, \Hf4, \Hf7}
Cont == {\H80, \H8f, \H90, \H9f, \Ha0, \Ha1, \Hbf}

Complete8 ==
    {<<l, c>> : l \in Lead2, c \in Cont}
    \cup {<<l[1], l[2], c>> : l \in Lead3 \X Cont, c \in Cont}
    \cup {<<l[1], l[2], l[3], c>> : l \in Lead4 \X Cont \X Cont, c \in Cont}

(* code units, each written most significant byte first *)
Units16 ==
    {<<\H00, \H00>>, <<\H00, \H61>>, <<\Hd7, \Hff>>, <<\Hd8, \H00>>,
     <<\Hdb, \Hff>>, <<\Hdc, \H00>>, <<\Hdf, \Hff>>, <<\He0, \H00>>,
     <<\Hff, \Hff>>}
Units32 ==
    {<<\H00, \H00, \H00, \H61>>, <<\H00, \H00, \Hd8, \H00>>,
     <<\H00, \H10, \Hff, \Hff>>, <<\H00, \H11, \H00, \H00>>,
     <<\H7f, \Hff, \Hff, \Hff>>, <<\H80, \H00, \H00, \H00>>,
     <<\Hff, \Hff, \Hff, \Hff>>}

(* the bytes of a code unit as they appear in a stream of the given order *)
UnitBytes(order, u) ==
    IF order = "LittleEndian" THEN [i \in 1..Len(u) |-> u[Len(u) + 1 - i]] ELSE u

RECURSIVE Flatten(_)
Flatten(ss) == IF ss = <<>> THEN <<>> ELSE Head(ss) \o Flatten(Tail(ss))

(* sequences of whole units, followed by at most w-1 stray bytes *)
UnitInputs(order, Units, w) ==
    {Flatten([i \in 1..Len(us) |-> UnitBytes(order, us[i])]) \o tail :
        us \in SeqsUpTo(Units, MaxUnits), tail \in SeqsUpTo({\Hd8}, w - 1)}

TestInputs8 ==
    {<<\H61, \Hc3, \H80, \He3, \H81, \H82, \Hf0, \Ha9, \Hb8, \Hbd>>,
     <<\Hc0, \He0, \H80, \Hf0, \H80, \H80>>,
     <<\Hc1, \Ha1, \He0, \H81, \Ha1, \Hf0, \H80, \H81, \Ha1>>,
     <<\Hff>>}

TestInputs16BE ==
    {<<\H00, \H61, \H00, \Hc0, \H30, \H42, \Hd8, \H67, \Hde, \H3d>>,
     <<\H61>>, <<\Hd8, \H00>>, <<\Hd8, \H00, \H00, \H61>>, <<\Hdc, \H00>>}

TestInputs16LE ==
    {<<\H61, \H00, \Hc0, \H00, \H42, \H30, \H67, \Hd8, \H3d, \Hde>>,
     <<\H61>>, <<\H00, \Hd8>>, <<\H00, \Hd8, \H61, \H00>>, <<\H00, \Hdc>>}

TestInputs32BE ==
    {<<\H00, \H00, \H00, \H61, \H00, \H00, \H00, \Hc0,
       \H00, \H00, \H30, \H42, \H00, \H02, \H9e, \H3d>>,
     <<\H00, \H61>>, <<\H00, \H11, \H00, \H00>>}

TestInputs32LE ==
    {<<\H61, \H00, \H00, \H00, \Hc0, \H00, \H00, \H00,
       \H42, \H30, \H00, \H00, \H3d, \H9e, \H02, \H00>>,
     <<\H00, \H61>>, <<\H00, \H00, \H11, \H00>>}

Inputs(b, order) ==
    IF b = 8 THEN SeqsUpTo(Core8, MaxLen8) \cup Complete8 \cup TestInputs8
    ELSE IF b = 16
    THEN SeqsUpTo(Core16, MaxLen16) \cup UnitInputs(order, Units16, 2)
         \cup (IF order = "BigEndian" THEN TestInputs16BE ELSE TestInputs16LE)
    ELSE SeqsUpTo(Core32, MaxLen32) \cup UnitInputs(order, Units32, 4)
         \cup (IF order = "BigEndian" THEN TestInputs32BE ELSE TestInputs32LE)

(* main: the charsets it accepts and the NewParser call it makes for each *)
Charsets ==
    {<<8, "nil">>, <<16, "BigEndian">>, <<16, "LittleEndian">>,
     <<32, "BigEndian">>, <<32, "LittleEndian">>}

----------------------------------------------------------------------------
(* main: a parser over a fresh reader, then the loop                       *)
(*     for { token, err := parser.parse(); print token; stop on err }      *)

Start ==
    /\ pos = 0
    /\ token = nil
    /\ err = ErrNil
    /\ from = 0
    /\ tokens = <<>>
    /\ steps = 0

Init ==
    /\ \E c \in Charsets :
          /\ bit = c[1]
          /\ ByteOrder = c[2]
          /\ input \in Inputs(c[1], c[2])
    /\ chars = <<>>
    /\ Start

(* one turn of main's loop with the result r of parse() *)
Turn(r) ==
    /\ err = ErrNil
    /\ pos' = r.pos
    /\ token' = r.token
    /\ err' = r.err
    /\ from' = pos
    /\ tokens' = IF r.token # nil THEN Append(tokens, r.token) ELSE tokens
    /\ steps' = steps + 1
    /\ UNCHANGED <<bit, ByteOrder, input, chars>>

Utf8Step == bit = 8 /\ Turn(utf8Parse(input, pos))

Utf16Step == bit = 16 /\ Turn(utf16Parse(ByteOrder, input, pos))

Utf32Step == bit = 32 /\ Turn(utf32Parse(ByteOrder, input, pos))

Next == Utf8Step \/ Utf16Step \/ Utf32Step

Spec == Init /\ [][Next]_vars

(* The inputs of the loop's termination: every byte class of a UTF-8        *)
(* stream, and streams of ordinary, surrogate and out-of-range units.       *)
LoopBytes8 == {\H61, \H80, \He3, \Hf0}
LoopUnits16 == {<<\H00, \H61>>, <<\Hd8, \H00>>, <<\Hdc, \H00>>}
LoopUnits32 == {<<\H00, \H00, \H00, \H61>>, <<\H00, \H11, \H00, \H00>>}

LoopInputs(b, order) ==
    IF b = 8 THEN SeqsUpTo(LoopBytes8, MaxLen8) \cup TestInputs8
    ELSE IF b = 16
    THEN UnitInputs(order, LoopUnits16, 2)
         \cup (IF order = "BigEndian" THEN TestInputs16BE ELSE TestInputs16LE)
    ELSE UnitInputs(order, LoopUnits32, 4)
         \cup (IF order = "BigEndian" THEN TestInputs32BE ELSE TestInputs32LE)

InitLoop ==
    /\ \E c \in Charsets :
          /\ bit = c[1]
          /\ ByteOrder = c[2]
          /\ input \in LoopInputs(c[1], c[2])
    /\ chars = <<>>
    /\ Start

(* main's loop keeps calling parse() until it breaks: a turn that can be    *)
(* taken is taken.                                                          *)
SpecLoop == InitLoop /\ [][Next]_vars /\ WF_vars(Next)

----------------------------------------------------------------------------
(* The standard encoding forms of a scalar value (Unicode Standard, 3.9).   *)
(* They are not code of the program: they produce the inputs of SpecEnc,    *)
(* where the input is the encoding of a known sequence of scalars `chars`.  *)

Utf8Encode(c) ==
    IF c < \H80 THEN <<c>>
    ELSE IF c < \H800 THEN <<\Hc0 + (c \div 64), \H80 + (c % 64)>>
    ELSE IF c < \H10000
    THEN <<\He0 + (c \div 4096), \H80 + ((c \div 64) % 64), \H80 + (c % 64)>>
    ELSE <<\Hf0 + (c \div 262144), \H80 + ((c \div 4096) % 64),
           \H80 + ((c \div 64) % 64), \H80 + (c % 64)>>

Utf16Encode(order, c) ==
    LET unit(u) == UnitBytes(order, <<u \div 256, u % 256>>)
    IN  IF c < \H10000 THEN unit(c)
        ELSE unit(\Hd800 + ((c - \H10000) \div 1024))
             \o unit(\Hdc00 + ((c - \H10000) % 1024))

Utf32Encode(order, c) ==
    UnitBytes(order, <<0, c \div 65536, (c \div 256) % 256, c % 256>>)

Encode(b, order, c) ==
    IF b = 8 THEN Utf8Encode(c)
    ELSE IF b = 16 THEN Utf16Encode(order, c)
    ELSE Utf32Encode(order, c)

EncodeAll(b, order, cs) == Flatten([i \in 1..Len(cs) |-> Encode(b, order, cs[i])])

(* the first and last scalar of each encoded length, the scalars next to    *)
(* the surrogate range, and the four characters of the tests                *)
Scalars ==
    {\H00, \H61, \H7f, \H80, \Hc0, \H7ff, \H800, \H3042, \Hd7ff, \He000,
     \Hffff, \H10000, \H29e3d, \H10ffff}

CharSeqs(b) ==
    SeqsUpTo(Scalars, MaxChars)
    \cup {<<\H61, \Hc0, \H3042, \H29e3d>>}
    \cup (IF b = 8 THEN {<<c>> : c \in 0..\H7f} ELSE {})

InitEnc ==
    /\ \E c \in Charsets :
          /\ bit = c[1]
          /\ ByteOrder = c[2]
          /\ chars \in CharSeqs(c[1])
          /\ input = EncodeAll(c[1], c[2], chars)
    /\ Start

SpecEnc == InitEnc /\ [][Next]_vars

----------------------------------------------------------------------------
(* Vocabulary of the properties.  These describe the input around the      *)
(* position `f` where a parse() call started, independently of the parsers. *)

Avail(f) == Len(input) - f

IsLeader(b) == \Hc0 <= b /\ b <= \Hf7

IsContinuation(b) == \H80 <= b /\ b <= \Hbf

(* continuation bytes a leader calls for *)
Need(b) == IF b <= \Hdf THEN 1 ELSE IF b <= \Hef THEN 2 ELSE 3

(* a leader at f followed by k continuation bytes *)
LeaderWith(f, k) ==
    /\ Avail(f) >= 1 + k
    /\ IsLeader(input[f + 1])
    /\ Need(input[f + 1]) >= k
    /\ \A i \in 1..k : IsContinuation(input[f + 1 + i])

(* ... of which it needs more, and the next byte is there and is not one *)
BadContinuationAt(f, k) ==
    /\ LeaderWith(f, k)
    /\ Need(input[f + 1]) > k
    /\ Avail(f) >= k + 2
    /\ ~IsContinuation(input[f + k + 2])

(* ... and that is all it needs *)
CompleteAt(f, k) == LeaderWith(f, k) /\ Need(input[f + 1]) = k

(* the value of the complete sequence at f, by arithmetic on its bytes *)
ValueAt(f, k) ==
    LET b(i) == input[f + i]
    IN  IF k = 1 THEN (b(1) - \Hc0) * 64 + (b(2) - \H80)
        ELSE IF k = 2
        THEN (b(1) - \He0) * 4096 + (b(2) - \H80) * 64 + (b(3) - \H80)
        ELSE (b(1) - \Hf0) * 262144 + (b(2) - \H80) * 4096
             + (b(3) - \H80) * 64 + (b(4) - \H80)

Least(k) == IF k = 1 THEN \H80 ELSE IF k = 2 THEN \H800 ELSE \H10000

(* the w bytes at f, most significant first *)
UnitAt(f, w) == UnitBytes(ByteOrder, SubSeq(input, f + 1, f + w))

(* a 4-byte unit, most significant byte first, is above 0x10FFFF *)
Above10FFFF(u) == u[1] > 0 \/ u[2] > \H10

(* a 2-byte unit, most significant byte first *)
IsHigh(u) == \Hd8 <= u[1] /\ u[1] <= \Hdb

IsLow(u) == \Hdc <= u[1] /\ u[1] <= \Hdf

----------------------------------------------------------------------------
(* C1: the UTF-32 parser, in either byte order, turns every 4-byte unit    *)
(* whose unsigned value is above 0x10FFFF into an InvalidByteSequence      *)
(* token with Rune 0 and those 4 bytes, returns no error and leaves the    *)
(* reader 4 bytes further.                                                 *)
C1_Utf32AboveMaxIsInvalid ==
    (bit = 32 /\ steps > 0 /\ Avail(from) >= 4 /\ Above10FFFF(UnitAt(from, 4)))
    => /\ token = NewToken(0, TypeInvalidByteSequence,
                           SubSeq(input, from + 1, from + 4))
       /\ err = ErrNil
       /\ pos = from + 4

(* C2: in the UTF-8 parser, a leader followed by k of its continuation     *)
(* bytes and then by a byte that is there but is no continuation byte      *)
(* gives an InvalidByteSequence token with Rune 0 and the leader and the   *)
(* k continuation bytes, with no error; the offending byte is not          *)
(* consumed, and the next parse() has it as its first byte.                *)
C2_BadContinuationStep ==
    (bit = 8 /\ steps > 0) =>
        \A k \in 0..2 :
            BadContinuationAt(from, k) =>
                /\ token = NewToken(0, TypeInvalidByteSequence,
                                    SubSeq(input, from + 1, from + 1 + k))
                /\ err = ErrNil
                /\ pos = from + 1 + k

(* C2, second half: what the parse() after such a step starts with *)
C2_BadContinuationNext ==
    (bit = 8 /\ steps > 0) =>
        \A k \in 0..2 :
            BadContinuationAt(from, k) =>
                /\ from' = from + 1 + k
                /\ token' # nil
                /\ token'.Bytes[1] = input[from + k + 2]

(* C2: both halves, in every state and on every step *)
C2_BadContinuationLeftUnread ==
    [](C2_BadContinuationStep) /\ [][C2_BadContinuationNext]_vars

C2_Witness ==
    /\ bit = 8
    /\ steps = 2
    /\ BadContinuationAt(0, 2)
    /\ from = 3
    /\ token.Bytes[1] = input[4]

(* C3: in the UTF-16 parser, in either byte order, a high surrogate         *)
(* followed by a whole unit that is not a low surrogate gives an            *)
(* IncompleteSurrogatePair token with Rune 0 and the 2 bytes of the high    *)
(* surrogate only, with no error, the reader 2 bytes further.              *)
C3_UnpairedHighStep ==
    (/\ bit = 16 /\ steps > 0 /\ Avail(from) >= 4
     /\ IsHigh(UnitAt(from, 2)) /\ ~IsLow(UnitAt(from + 2, 2)))
    => /\ token = NewToken(0, TypeIncompleteSurrogatePair,
                           SubSeq(input, from + 1, from + 2))
       /\ err = ErrNil
       /\ pos = from + 2

(* C3, second half: the parse() after such a step decodes the unit that     *)
(* was peeked as its first unit.                                           *)
C3_UnpairedHighNext ==
    (/\ bit = 16 /\ steps > 0 /\ Avail(from) >= 4
     /\ IsHigh(UnitAt(from, 2)) /\ ~IsLow(UnitAt(from + 2, 2)))
    => /\ from' = from + 2
       /\ token' # nil
       /\ SubSeq(token'.Bytes, 1, 2) = SubSeq(input, from + 3, from + 4)

(* C3: both halves, in every state and on every step *)
C3_UnpairedHighLeavesNextUnit ==
    [](C3_UnpairedHighStep) /\ [][C3_UnpairedHighNext]_vars

C3_Witness ==
    /\ bit = 16
    /\ ByteOrder = "LittleEndian"
    /\ steps = 2
    /\ Avail(0) >= 4
    /\ IsHigh(UnitAt(0, 2))
    /\ IsHigh(UnitAt(2, 2))
    /\ tokens[1].Type = TypeIncompleteSurrogatePair
    /\ from = 2
    /\ SubSeq(token.Bytes, 1, 2) = SubSeq(input, 3, 4)

(* C4: in the UTF-8 parser, a leader followed by all the continuation       *)
(* bytes it needs gives a token with the whole sequence as Bytes, the       *)
(* value of the sequence as Rune, and Type RedundantEncoding exactly when   *)
(* that value is below 0x80, 0x800, 0x10000 for 2, 3, 4 bytes, otherwise    *)
(* Ok; no error is returned.                                               *)
C4_CompleteSequenceValue ==
    (bit = 8 /\ steps > 0) =>
        \A k \in 1..3 :
            CompleteAt(from, k) =>
                /\ token = NewToken(ValueAt(from, k),
                                    IF ValueAt(from, k) < Least(k)
                                    THEN TypeRedundantEncoding ELSE TypeOk,
                                    SubSeq(input, from + 1, from + 1 + k))
                /\ err = ErrNil
                /\ pos = from + 1 + k

C4_Witness ==
    /\ bit = 8
    /\ steps > 0
    /\ CompleteAt(from, 3)
    /\ ValueAt(from, 3) = \Hffff
    /\ token.Type = TypeRedundantEncoding
    /\ token.Rune = \Hffff

(* C5: under SpecEnc, where the input is the standard encoding of the       *)
(* scalars `chars` in the parser's charset: the tokens returned are, in     *)
(* order, one Ok token per scalar, with that scalar as Rune and its         *)
(* encoding as Bytes, each returned with no error; the loop ends with no    *)
(* token and io.EOF once the whole input is consumed.  Every charset        *)
(* yielding `chars` itself, all five yield the same sequence of scalars.    *)
C5_RoundTrip ==
    /\ Len(tokens) <= Len(chars)
    /\ \A i \in 1..Len(tokens) :
          tokens[i] = NewToken(chars[i], TypeOk, Encode(bit, ByteOrder, chars[i]))
    /\ err = ErrNil => steps = Len(tokens)
    /\ err # ErrNil =>
          /\ err = EOF
          /\ token = nil
          /\ pos = Len(input)
          /\ Len(tokens) = Len(chars)
          /\ steps = Len(chars) + 1

C5_Witness ==
    /\ bit = 16
    /\ ByteOrder = "LittleEndian"
    /\ chars = <<\H10000, \Hffff>>
    /\ err = EOF
    /\ [i \in 1..Len(tokens) |-> tokens[i].Rune] = chars

(* C6: in the UTF-16 parser, in either byte order, a high surrogate r1      *)
(* followed by a whole unit r2 that is a low surrogate gives an Ok token    *)
(* with Rune (r1 - 0xD800) * 0x400 + (r2 - 0xDC00) + 0x10000 and the 4      *)
(* bytes of both units in stream order, with no error, the reader 4 bytes   *)
(* further.                                                                *)
C6_SurrogatePair ==
    (/\ bit = 16 /\ steps > 0 /\ Avail(from) >= 4
     /\ IsHigh(UnitAt(from, 2)) /\ IsLow(UnitAt(from + 2, 2)))
    => LET u1 == UnitAt(from, 2)
           u2 == UnitAt(from + 2, 2)
           r1 == u1[1] * 256 + u1[2]
           r2 == u2[1] * 256 + u2[2]
       IN  /\ token = NewToken((r1 - \Hd800) * 1024 + (r2 - \Hdc00) + \H10000,
                               TypeOk, SubSeq(input, from + 1, from + 4))
           /\ err = ErrNil
           /\ pos = from + 4

C6_Witness ==
    /\ bit = 16
    /\ ByteOrder = "BigEndian"
    /\ steps > 0
    /\ Avail(from) >= 4
    /\ SubSeq(input, from + 1, from + 4) = <<\Hdb, \Hff, \Hdf, \Hff>>
    /\ token = NewToken(\H10ffff, TypeOk, <<\Hdb, \Hff, \Hdf, \Hff>>)
    /\ pos = from + 4

(* the bytes of a code unit of the parser *)
UnitSize == bit \div 8

(* C7, as claimed: the Bytes of every token returned, by any parser on any  *)
(* input, have a length that is a multiple of the unit size (1, 2, 4).      *)
C7_BytesWholeUnits ==
    token # nil => Len(token.Bytes) % UnitSize = 0

(* C7, amended: the Bytes of every token returned have a length that is a   *)
(* multiple of the unit size, except the token that the UTF-16 or UTF-32    *)
(* parser returns with io.ErrUnexpectedEOF when the input ends inside a     *)
(* unit: its Bytes are the 1 (UTF-16) or 1 to 3 (UTF-32) bytes left.        *)
C7_BytesWholeUnitsUnlessCutShort ==
    token # nil =>
        IF err = ErrUnexpectedEOF
        THEN /\ bit \in {16, 32}
             /\ Avail(from) \in 1..(UnitSize - 1)
             /\ token.Bytes = SubSeq(input, from + 1, Len(input))
        ELSE /\ Len(token.Bytes) % UnitSize = 0
             /\ Len(token.Bytes) > 0

C7_Witness ==
    /\ bit = 32
    /\ steps = 2
    /\ token # nil
    /\ err = ErrUnexpectedEOF
    /\ Len(token.Bytes) = 3
    /\ Len(tokens[1].Bytes) = 4

(* The input ends inside a unit of the parse() that started at `from`.      *)
Utf8CutShort ==
    /\ bit = 8
    /\ \E k \in 0..2 :
          LeaderWith(from, k) /\ Need(input[from + 1]) > k /\ Avail(from) = k + 1

Utf16HighCutShort ==
    bit = 16 /\ Avail(from) \in {2, 3} /\ IsHigh(UnitAt(from, 2))

UnitCutShort == bit \in {16, 32} /\ Avail(from) \in 1..(UnitSize - 1)

(* C8, as claimed: whenever the input ends inside a unit (UTF-8 leader      *)
(* missing a continuation byte, UTF-16 unit of 1 byte, UTF-16 high          *)
(* surrogate with no whole unit after it, UTF-32 unit of 1 to 3 bytes) the  *)
(* error returned with the token is the unexpected-end error, a value other *)
(* than the one returned with no token at the end of the input.             *)
C8_CutShortIsUnexpectedEOF ==
    (steps > 0 /\ (Utf8CutShort \/ Utf16HighCutShort \/ UnitCutShort))
    => token # nil /\ err = ErrUnexpectedEOF /\ err # EOF

(* C8, amended: whenever the input ends inside a unit an error is returned  *)
(* with the token.  It is io.ErrUnexpectedEOF, a value other than the       *)
(* io.EOF of the clean end, for a UTF-16 unit of 1 byte and a UTF-32 unit   *)
(* of 1 to 3 bytes; for a UTF-8 leader missing a continuation byte and for  *)
(* a UTF-16 high surrogate with no whole unit after it, it is io.EOF, the   *)
(* same value that is returned with no token at the end of the input.       *)
C8_CutShortErrors ==
    steps > 0 =>
        /\ UnitCutShort => token # nil /\ err = ErrUnexpectedEOF
        /\ (Utf8CutShort \/ Utf16HighCutShort) => token # nil /\ err = EOF
        /\ Avail(from) = 0 => token = nil /\ err = EOF

C8_Witness ==
    /\ steps > 0
    /\ Utf16HighCutShort
    /\ Avail(from) = 3
    /\ token # nil
    /\ err = EOF

(* C9: a parse() of any of the three parsers returns no token exactly when  *)
(* no byte is left when it starts; it then returns io.EOF and consumes      *)
(* nothing; in every other case it returns one token, which main prints.    *)
C9_NoTokenIffEmpty ==
    steps > 0 =>
        /\ token = nil <=> Avail(from) = 0
        /\ token = nil => err = EOF /\ pos = from
        /\ token # nil => tokens # <<>> /\ tokens[Len(tokens)] = token
        /\ Len(tokens) = IF token = nil THEN steps - 1 ELSE steps

C9_Witness ==
    /\ bit = 16
    /\ steps = 3
    /\ token = nil
    /\ err = EOF
    /\ Len(tokens) = 2
    /\ pos = Len(input)

(* C10: after any number of parse() calls of any parser on any input the    *)
(* Bytes of the tokens returned so far, concatenated in order, are the      *)
(* consumed prefix of the input (so their total length is the number of     *)
(* bytes consumed); every token has at least one byte, so a call that       *)
(* returns a token moves the reader forward, and no call moves it back.     *)
C10_TokensAreConsumedPrefix ==
    /\ Flatten([i \in 1..Len(tokens) |-> tokens[i].Bytes]) = SubSeq(input, 1, pos)
    /\ \A i \in 1..Len(tokens) : Len(tokens[i].Bytes) >= 1
    /\ from <= pos
    /\ pos <= Len(input)
    /\ (steps > 0 /\ token # nil) => (pos > from /\ token.Bytes = SubSeq(input, from + 1, pos))
    /\ token = nil => pos = from

C10_Witness ==
    /\ bit = 16
    /\ Len(tokens) = 2
    /\ Len(tokens[1].Bytes) = 4
    /\ Len(tokens[2].Bytes) = 2
    /\ err = EOF
    /\ pos = 6
    /\ Len(input) = 7


(* C11: in the UTF-8 parser, when the input ends where a leader still       *)
(* expects a continuation byte (after 0, 1 or 2 of them), the token is      *)
(* InvalidByteSequence with Rune 0 and the leader and the continuation      *)
(* bytes read so far, an error is returned with it, and the reader is at    *)
(* the end of the input.                                                   *)
C11_Utf8CutShort ==
    (steps > 0 /\ Utf8CutShort)
    => /\ token = NewToken(0, TypeInvalidByteSequence,
                           SubSeq(input, from + 1, Len(input)))
       /\ err # ErrNil
       /\ pos = Len(input)

C11_Witness ==
    /\ steps > 0
    /\ Utf8CutShort
    /\ from > 0
    /\ Len(token.Bytes) = 3
    /\ err = EOF
    /\ pos = Len(input)


(* C12: in the UTF-16 parser, in either byte order, a high surrogate with   *)
(* fewer than 2 bytes after it (none or one) gives an                       *)
(* IncompleteSurrogatePair token with Rune 0 and exactly the 2 bytes of the *)
(* high surrogate, and an error is returned with it.                        *)
C12_HighSurrogateCutShort ==
    (steps > 0 /\ Utf16HighCutShort)
    => /\ token = NewToken(0, TypeIncompleteSurrogatePair,
                           SubSeq(input, from + 1, from + 2))
       /\ err # ErrNil

C12_Witness ==
    /\ steps > 0
    /\ Utf16HighCutShort
    /\ ByteOrder = "LittleEndian"
    /\ Avail(from) = 3
    /\ token.Type = TypeIncompleteSurrogatePair
    /\ Len(token.Bytes) = 2
    /\ err = EOF

(* C13: in the UTF-16 and UTF-32 parsers, when at least one byte but less   *)
(* than a whole unit is left at the start of a parse() (1 byte, or 1 to 3   *)
(* bytes), the token is InvalidByteSequence with Rune 0 and exactly the     *)
(* bytes that were left, in order; io.ErrUnexpectedEOF is returned with it  *)
(* and the reader is at the end of the input.                               *)
C13_PartialUnit ==
    (steps > 0 /\ UnitCutShort)
    => /\ token = NewToken(0, TypeInvalidByteSequence,
                           SubSeq(input, from + 1, Len(input)))
       /\ err = ErrUnexpectedEOF
       /\ pos = Len(input)

C13_Witness ==
    /\ steps > 1
    /\ UnitCutShort
    /\ bit = 32
    /\ Avail(from) = 3
    /\ Len(token.Bytes) = 3
    /\ err = ErrUnexpectedEOF


(* C14: in the UTF-8 parser, a first byte in 0x80-0xBF or 0xF8-0xFF,        *)
(* whatever follows it (also nothing), gives an InvalidByteSequence token   *)
(* with Rune 0 and that one byte, with no error, the reader one byte        *)
(* further.                                                                *)
C14_StrayFirstByte ==
    (/\ bit = 8 /\ steps > 0 /\ Avail(from) >= 1
     /\ (IsContinuation(input[from + 1]) \/ input[from + 1] >= \Hf8))
    => /\ token = NewToken(0, TypeInvalidByteSequence, <<input[from + 1]>>)
       /\ err = ErrNil
       /\ pos = from + 1

C14_Witness ==
    /\ bit = 8
    /\ steps > 0
    /\ Avail(from) = 1
    /\ input[from + 1] = \Hf8
    /\ token = NewToken(0, TypeInvalidByteSequence, <<\Hf8>>)
    /\ err = ErrNil

(* C15: in the UTF-16 parser, in either byte order, a 2-byte unit r1 that   *)
(* is not a high surrogate is consumed alone (2 bytes) and returned with    *)
(* no error and those 2 bytes; the token is IncompleteSurrogatePair with    *)
(* Rune 0 if r1 is a low surrogate, and Ok with Rune r1 otherwise.          *)
C15_SingleUnit ==
    (bit = 16 /\ steps > 0 /\ Avail(from) >= 2 /\ ~IsHigh(UnitAt(from, 2)))
    => LET u == UnitAt(from, 2)
       IN  /\ token = IF IsLow(u)
                      THEN NewToken(0, TypeIncompleteSurrogatePair,
                                    SubSeq(input, from + 1, from + 2))
                      ELSE NewToken(u[1] * 256 + u[2], TypeOk,
                                    SubSeq(input, from + 1, from + 2))
           /\ err = ErrNil
           /\ pos = from + 2

C15_Witness ==
    /\ bit = 16
    /\ ByteOrder = "LittleEndian"
    /\ steps > 0
    /\ Avail(from) >= 2
    /\ token = NewToken(\He000, TypeOk, <<\H00, \He0>>)
    /\ pos = from + 2


(* C16: every token returned, by any parser on any input, that is           *)
(* InvalidByteSequence or IncompleteSurrogatePair has Rune 0: only Ok and   *)
(* RedundantEncoding tokens carry a decoded value.                          *)
C16_NoValueUnlessDecoded ==
    \A i \in 1..Len(tokens) :
        tokens[i].Type \in {TypeInvalidByteSequence, TypeIncompleteSurrogatePair}
        => tokens[i].Rune = 0

C16_Witness ==
    /\ bit = 32
    /\ Len(tokens) = 2
    /\ tokens[1].Type = TypeInvalidByteSequence
    /\ Len(tokens[1].Bytes) = 4
    /\ tokens[1].Rune = 0
    /\ tokens[2].Type = TypeInvalidByteSequence
    /\ Len(tokens[2].Bytes) < 4
    /\ tokens[2].Rune = 0


(* C17: the loop of main ends for every input and every parser: an error is *)
(* eventually returned, after at most len(input) + 1 calls of parse(),      *)
(* because every call that returns no error consumes at least one byte.     *)
C17_LoopTerminates ==
    /\ <>(err # ErrNil)
    /\ [](steps <= Len(input) + 1)
    /\ [][err' = ErrNil => pos' > pos]_vars

C17_Witness ==
    /\ err # ErrNil
    /\ Len(input) >= 2
    /\ steps = Len(input) + 1
    /\ pos = Len(input)


(* C18: the UTF-8 parser never returns InvalidByteSequence for a leader     *)
(* 0xC0..0xF7 followed by all the continuation bytes it needs.  A 3-byte    *)
(* sequence with a value in 0xD800..0xDFFF and a 4-byte sequence with a     *)
(* value above 0x10FFFF are returned as Ok tokens carrying that value.      *)
C18_WellFormedNeverInvalid ==
    (bit = 8 /\ steps > 0) =>
        \A k \in 1..3 :
            CompleteAt(from, k) =>
                /\ token # nil
                /\ token.Type # TypeInvalidByteSequence
                /\ ((\/ (k = 2 /\ \Hd800 <= ValueAt(from, k)
                               /\ ValueAt(from, k) <= \Hdfff)
                     \/ (k = 3 /\ ValueAt(from, k) > \H10ffff))
                    => /\ token.Type = TypeOk
                       /\ token.Rune = ValueAt(from, k))

C18_Witness ==
    /\ bit = 8
    /\ steps > 0
    /\ CompleteAt(from, 3)
    /\ ValueAt(from, 3) = \H1fffff
    /\ token.Type = TypeOk
    /\ token.Rune = \H1fffff

C18_WitnessSurrogate ==
    /\ bit = 8
    /\ steps > 0
    /\ CompleteAt(from, 2)
    /\ ValueAt(from, 2) = \Hd800
    /\ token.Type = TypeOk


(* C19: when the loop of main stops, the Bytes of the tokens it was given,  *)
(* put end to end, are the entire input: no byte is left unread and         *)
(* unreported.                                                              *)
C19_TokensCoverInput ==
    err # ErrNil =>
        Flatten([i \in 1..Len(tokens) |-> tokens[i].Bytes]) = input

(* the loop has stopped on a high surrogate followed by a single byte *)
C19_StoppedBeforeLastByte ==
    /\ bit = 16
    /\ err = EOF
    /\ steps > 0
    /\ Utf16HighCutShort
    /\ Avail(from) = 3
    /\ pos = Len(input) - 1
    /\ token.Bytes = SubSeq(input, from + 1, from + 2)


(* C20: every Ok token the UTF-16 parser returns, in either byte order and  *)
(* on any input, has a Rune in 0..0x10FFFF outside 0xD800..0xDFFF; a token  *)
(* of 4 Bytes has a Rune in 0x10000..0x10FFFF and an Ok token of 2 Bytes a  *)
(* Rune in 0..0xFFFF.                                                       *)
C20_Utf16OkIsScalar ==
    bit = 16 =>
        \A i \in 1..Len(tokens) :
            LET t == tokens[i]
            IN  /\ t.Type = TypeOk =>
                    /\ 0 <= t.Rune /\ t.Rune <= \H10ffff
                    /\ ~(\Hd800 <= t.Rune /\ t.Rune <= \Hdfff)
                /\ Len(t.Bytes) = 4 =>
                    (\H10000 <= t.Rune /\ t.Rune <= \H10ffff)
                /\ (t.Type = TypeOk /\ Len(t.Bytes) = 2) =>
                    (0 <= t.Rune /\ t.Rune <= \Hffff)

C20_Witness ==
    /\ bit = 16
    /\ Len(tokens) = 2
    /\ tokens[1].Type = TypeOk
    /\ Len(tokens[1].Bytes) = 4
    /\ tokens[1].Rune = \H10ffff
    /\ tokens[2].Type = TypeOk
    /\ Len(tokens[2].Bytes) = 2
    /\ tokens[2].Rune = \Hffff

====
